---------------------------- MODULE Spec2Model ----------------------------
(***************************************************************************)
(* System V semaphores of pkg/sentry/kernel/semaphore/semaphore.go: the    *)
(* Registry (ID and index maps, capacity limits), the Set with its atomic  *)
(* operation engine (ExecuteOps), and the waiter queues with their         *)
(* one-slot wake channels.                                                 *)
(*                                                                         *)
(* Every public method runs under the registry mutex and/or the set mutex  *)
(* from its first to its last statement, so a method is one atomic action. *)
(* The one place a method can stop in the middle is a channel send         *)
(* (w.ch <- struct{}{}) that finds the one-slot buffer full: the method    *)
(* then keeps the set mutex and its remaining statements are kept in       *)
(* `pending` until the channel is drained.                                 *)
(***************************************************************************)
EXTENDS Integers, Sequences, FiniteSets, TLC

(***************************************************************************)
(* Program constants and model bounds.                                     *)
(***************************************************************************)
\* valueMax = linux.SEMVMX
valueMax == 32767
\* linux.IPC_NOWAIT (octal 04000)
IPC_NOWAIT == 2048
\* largest int32: the type of Registry.lastIDUsed and of the IDs
MaxInt32 == 2147483647
\* int16: the type of sem.value, waiter.value and Sembuf.SemOp
MinInt16 == -valueMax - 1

\* setsMax = linux.SEMMNI (32000), scaled down
setsMax == 2
\* semsMax = linux.SEMMSL (32000), scaled down
semsMax == 2
\* semsTotalMax = linux.SEMMNS, scaled down (kept below setsMax * semsMax so
\* that both capacity checks of FindOrCreate can refuse)
semsTotalMax == 3
\* number of Set objects ever allocated in one behaviour
MaxObjs == 3
\* a caller of ExecuteOps blocks only while fewer than MaxWaiters wake
\* channels have been made
MaxWaiters == 2
\* number of callers blocked on the set when a waker pass is looked at
MaxQueued == 3
\* longest batch handed to ExecuteOps
MaxOps == 2
\* semaphore values are explored within MaxVal of 0, of valueMax and of MinInt16
MaxVal == 1
\* timestamps handed out by the clock of the context: 1..MaxTime
MaxTime == 1
\* keys handed to FindOrCreate: 1..MaxKey
MaxKey == 2
\* threads followed mutex by mutex
MaxThreads == 2
\* calls the mutator makes while a caller waits
MaxMutations == 2

(***************************************************************************)
(* 16-bit and 32-bit signed arithmetic as Go computes it (wrap around).    *)
(* The model checker's integers are 32 bits wide, so int32 is incremented  *)
(* by cases.                                                               *)
(***************************************************************************)
Int16(x) == ((x + 32768) % 65536) - 32768

\* id + 1 and id++ on an int32
Inc32(x) == IF x = MaxInt32 THEN (0 - MaxInt32) - 1 ELSE x + 1

\* -x on an int16
Neg16(x) == Int16(0 - x)

\* func abs(val int16) int16
abs(val) == IF val < 0 THEN Neg16(val) ELSE val

(***************************************************************************)
(* Credentials, owners and permissions.  auth.Credentials and fs.* are     *)
(* collaborators outside the package; they are represented by the values   *)
(* the package reads from them.                                            *)
(***************************************************************************)
Read == "Read"
Write == "Write"

\* fs.PermMask as the set of granted permissions; SupersetOf is \supseteq
SupersetOf(p, req) == req \subseteq p

\* linux.FileMode values used by the callers, as fs.FilePermsFromMode splits them
Mode0600 == [User |-> {Read, Write}, Group |-> {}, Other |-> {}]
Mode0640 == [User |-> {Read, Write}, Group |-> {Read}, Other |-> {}]
Modes == {Mode0600, Mode0640}

\* fs.PermsFromMode(mode): the owner triad of the mode
PermsFromMode(mode) == mode.User

\* The callers: task 1 creates the sets, task 2 shares its group, task 3 is a
\* stranger, task 4 is a stranger holding CAP_IPC_OWNER.
Creds(t) ==
    CASE t = 1 -> [EffectiveKUID |-> 1, EffectiveKGID |-> 1, cap |-> FALSE]
      [] t = 2 -> [EffectiveKUID |-> 2, EffectiveKGID |-> 1, cap |-> FALSE]
      [] t = 3 -> [EffectiveKUID |-> 3, EffectiveKGID |-> 3, cap |-> FALSE]
      [] OTHER -> [EffectiveKUID |-> 4, EffectiveKGID |-> 4, cap |-> TRUE]

\* fs.FileOwnerFromContext
FileOwnerFromContext(t) == [UID |-> Creds(t).EffectiveKUID, GID |-> Creds(t).EffectiveKGID]

\* the pid a task passes to the set operations
Pid(t) == t

\* func (s *Set) checkCredentials
checkCredentials(s, creds) ==
    \/ s.owner.UID = creds.EffectiveKUID
    \/ s.owner.GID = creds.EffectiveKGID
    \/ s.creator.UID = creds.EffectiveKUID
    \/ s.creator.GID = creds.EffectiveKGID

\* func (s *Set) checkCapability
checkCapability(s, creds) == creds.cap

\* func (s *Set) checkPerms
checkPerms(s, creds, reqPerms) ==
    LET p == IF s.owner.UID = creds.EffectiveKUID THEN s.perms.User
             ELSE IF s.owner.GID = creds.EffectiveKGID THEN s.perms.Group
             ELSE s.perms.Other
    IN  SupersetOf(p, reqPerms) \/ checkCapability(s, creds)


(***************************************************************************)
(* State.                                                                  *)
(***************************************************************************)
VARIABLES
    semaphores,  \* Registry.semaphores: ID -> Set (a reference into heap)
    indexes,     \* Registry.indexes: index -> ID
    lastIDUsed,  \* Registry.lastIDUsed
    heap,        \* every Set object allocated so far; a caller's handle (*Set)
                 \* is a position in heap and outlives the set's removal
    chans,       \* chans[c]: number of signals buffered in wake channel c (cap 1)
    sent,        \* sent[c]: number of sends completed on channel c so far
    holder,      \* holder[c]: the caller ExecuteOps returned channel c to
    pending,     \* pending[s]: the statements left to run of the method that is
                 \* blocked in a channel send while holding heap[s].mu; <<>> if none
    panicked,    \* the panic raised, "" if none
    woken,       \* the channels the last call sent on, in the order of the sends
    call,        \* the call that returned last (its arguments and results)
    pre,         \* the state that call started from
    thr          \* thr[th]: where thread th is in the method it runs and the
                 \* mutexes it holds; <<>> when no thread is followed

vars == <<semaphores, indexes, lastIDUsed, heap, chans, sent, holder, pending,
          panicked, woken, call, pre, thr>>

registry == <<semaphores, indexes, lastIDUsed>>

NoCall == [op |-> "none"]

\* what the properties compare the state after a call with
Snapshot ==
    [semaphores |-> semaphores, indexes |-> indexes, lastIDUsed |-> lastIDUsed,
     heap |-> heap, chans |-> chans, sent |-> sent]

Tasks == 1..4
Keys == 1..MaxKey
Times == 1..MaxTime

(***************************************************************************)
(* waiterList: the intrusive list of a semaphore's waiters, as the         *)
(* sequence of its entries from Front() to Back().                         *)
(***************************************************************************)
\* func newWaiter(val int16) *waiter, ch being a fresh channel of capacity 1
newWaiter(val, ch) == [value |-> val, ch |-> ch]

\* waiterList.PushBack
PushBack(l, w) == Append(l, w)

\* waiterList.Remove of the entry at position k
Remove(l, k) == SubSeq(l, 1, k - 1) \o SubSeq(l, k + 1, Len(l))

\* make(chan struct{}, 1): a send completes at once iff the buffer is empty
CanSend(chs, ch) == chs[ch] = 0

(***************************************************************************)
(* The statements a method runs on a Set once its checks have passed.      *)
(* run executes them in order; a send on a full channel stops it with the  *)
(* statements left.  m = [set, chans, sent, order], order being the         *)
(* channels sent on so far.                                                *)
(***************************************************************************)
Ins(op, i, x) == [op |-> op, i |-> i, x |-> x]

\* StillBlocked keeping a waiter whose need is just met
StillBlockedAtNeed(value, w) == value <= abs(w.value)

\* the test of wakeWaiters: the waiter stays queued
StillBlocked(value, w) == value < abs(w.value)

\* w.ch <- struct{}{} completed
Send(m, ch) ==
    [m EXCEPT !.chans[ch] = 1, !.sent[ch] = @ + 1, !.order = Append(@, ch)]

\* s.waiters.Reset() in destroy: s is the loop's copy of the sem (for _, s :=
\* range s.sems), so head and tail of the copy are cleared and the list of
\* the set's own sem keeps every entry
ResetOfRangeCopy(waiters) == waiters

RECURSIVE run(_, _)
run(prog, m) ==
    IF prog = <<>> THEN [m |-> m, rest |-> <<>>]
    ELSE
      LET ins == Head(prog)
          sem == m.set.sems[ins.i]
      IN
      CASE ins.op = "value" ->
             run(Tail(prog), [m EXCEPT !.set.sems[ins.i].value = ins.x])
        [] ins.op = "pid" ->
             run(Tail(prog), [m EXCEPT !.set.sems[ins.i].pid = ins.x])
        [] ins.op = "opTime" ->
             run(Tail(prog), [m EXCEPT !.set.opTime = ins.x])
        [] ins.op = "changeTime" ->
             run(Tail(prog), [m EXCEPT !.set.changeTime = ins.x])
        [] ins.op = "dead" ->
             run(Tail(prog), [m EXCEPT !.set.dead = TRUE])
        [] ins.op = "wakeWaiters" ->
             \* ins.x: the position of w in the list
             IF ins.x > Len(sem.waiters) THEN run(Tail(prog), m)
             ELSE
               LET w == sem.waiters[ins.x] IN
               IF StillBlocked(sem.value, w)
               THEN run(<<Ins("wakeWaiters", ins.i, ins.x + 1)>> \o Tail(prog), m)
               ELSE IF ~CanSend(m.chans, w.ch) THEN [m |-> m, rest |-> prog]
               ELSE run(prog, [Send(m, w.ch) EXCEPT
                                 !.set.sems[ins.i].waiters = Remove(@, ins.x)])
        [] ins.op = "notify" ->
             \* the inner loop of destroy
             IF ins.x > Len(sem.waiters) THEN run(Tail(prog), m)
             ELSE
               LET w == sem.waiters[ins.x] IN
               IF ~CanSend(m.chans, w.ch) THEN [m |-> m, rest |-> prog]
               ELSE run(<<Ins("notify", ins.i, ins.x + 1)>> \o Tail(prog),
                        Send(m, w.ch))
        [] ins.op = "Reset" ->
             run(Tail(prog),
                 [m EXCEPT !.set.sems[ins.i].waiters = ResetOfRangeCopy(@)])

\* the statements of the sequences of ss, in a row
RECURSIVE Concat(_)
Concat(ss) == IF ss = <<>> THEN <<>> ELSE Head(ss) \o Concat(Tail(ss))

\* func (s *sem) wakeWaiters, on semaphore i of the set (1-based)
wakeWaiters(i) == Ins("wakeWaiters", i, 1)

\* func (s *Set) destroy
destroyBody(i) == <<Ins("notify", i, 1), Ins("Reset", i, 0)>>

\* destroy that sends the signals and leaves dead as it was
destroyAlive(s) == Concat([i \in 1..Len(s.sems) |-> destroyBody(i)])

destroy(s) ==
    <<Ins("dead", 1, 0)>> \o Concat([i \in 1..Len(s.sems) |-> destroyBody(i)])


(***************************************************************************)
(* Set.  A method is the function from the Set it is called on to: the Set *)
(* it leaves when its checks and direct assignments are done (set), the    *)
(* statements it goes on to run under mu (prog, see run), and what it      *)
(* returns (err, and ch, num or val).                                      *)
(***************************************************************************)
Res(s, prog, err) == [set |-> s, prog |-> prog, err |-> err]

\* func (s *Set) Size
Size(s) == Len(s.sems)

\* func (s *Set) findSem: TRUE iff it returns a sem (num is 0-based)
findSem(s, num) == ~(num < 0 \/ num >= Size(s))

\* &s.sems[num], as a position in the sequence s.sems
At(num) == num + 1

\* op.SemFlg&linux.IPC_NOWAIT != 0
NoWait(op) == (op.SemFlg \div IPC_NOWAIT) % 2 = 1

\* readOnly of ExecuteOps: no op of the batch has SemOp != 0
readOnly(ops) == \A k \in 1..Len(ops) : ops[k].SemOp = 0

\* the ways the loop over ops of executeOps ends, with tmpVals as it is then
Failed(err, tmpVals) ==
    [kind |-> "error", err |-> err, num |-> 0, value |-> 0, tmpVals |-> tmpVals]
MustWait(op, tmpVals) ==
    [kind |-> "block", err |-> "", num |-> op.SemNum, value |-> op.SemOp,
     tmpVals |-> tmpVals]
AllSucceeded(tmpVals) ==
    [kind |-> "commit", err |-> "", num |-> 0, value |-> 0, tmpVals |-> tmpVals]

\* WaitOrFail without the test of IPC_NOWAIT
WaitAlways(op, tmpVals) == MustWait(op, tmpVals)

\* must wait: if op.SemFlg&linux.IPC_NOWAIT != 0 { ErrWouldBlock } else a waiter
WaitOrFail(op, tmpVals) ==
    IF NoWait(op) THEN Failed("EWOULDBLOCK", tmpVals) ELSE MustWait(op, tmpVals)

\* 'wait' operation asking for more than valueMax: -op.SemOp > valueMax
WaitTooBig(SemOp) == Neg16(SemOp) > valueMax

\* 'wait' operation lacking resources: -op.SemOp > tmpVals[op.SemNum]
NotEnough(SemOp, tmpVal) == Neg16(SemOp) > tmpVal

\* 'signal' operation overflowing: tmpVals[op.SemNum] > valueMax-op.SemOp
SignalTooBig(SemOp, tmpVal) == tmpVal > Int16(valueMax - SemOp)

\* tmpVals[op.SemNum] += op.SemOp
Add(tmpVals, op) == [tmpVals EXCEPT ![At(op.SemNum)] = Int16(@ + op.SemOp)]

\* the loop over ops of executeOps, from ops[k] on
RECURSIVE dryRun(_, _, _)
dryRun(ops, k, tmpVals) ==
    IF k > Len(ops) THEN AllSucceeded(tmpVals)
    ELSE
      LET op == ops[k]
          tmpVal == tmpVals[At(op.SemNum)]
      IN
      IF op.SemOp = 0 THEN
        IF tmpVal # 0 THEN WaitOrFail(op, tmpVals) ELSE dryRun(ops, k + 1, tmpVals)
      ELSE IF op.SemOp < 0 THEN
        IF WaitTooBig(op.SemOp) THEN Failed("ERANGE", tmpVals)
        ELSE IF NotEnough(op.SemOp, tmpVal) THEN WaitOrFail(op, tmpVals)
        ELSE dryRun(ops, k + 1, Add(tmpVals, op))
      ELSE
        IF SignalTooBig(op.SemOp, tmpVal) THEN Failed("ERANGE", tmpVals)
        ELSE dryRun(ops, k + 1, Add(tmpVals, op))

\* the loop of executeOps that applies tmpVals, then opTime
applyOps(tmpVals, pid, now) ==
    LET body(i) == <<Ins("value", i, tmpVals[i]), wakeWaiters(i), Ins("pid", i, pid)>>
    IN  Concat([i \in 1..Len(tmpVals) |-> body(i)]) \o <<Ins("opTime", 1, now)>>

\* tmpVals as executeOps fills it from s.sems
Values(s) == [i \in 1..Len(s.sems) |-> s.sems[i].value]

\* Enqueue with the waiter put in front of the list
EnqueueFront(s, num, w) == [s EXCEPT !.sems[At(num)].waiters = <<w>> \o @]

\* sem.waiters.PushBack(w) on the sem of the op that must wait
Enqueue(s, num, w) == [s EXCEPT !.sems[At(num)].waiters = PushBack(@, w)]

\* executeOps working on the values of the semaphores themselves, with no
\* tmpVals: an error leaves what the operations before it did
executeOpsInPlace(s, ops, pid, now, ch) ==
    LET out == dryRun(ops, 1, Values(s)) IN
    CASE out.kind = "error" ->
           Res([s EXCEPT !.sems = [i \in 1..Len(s.sems) |->
                                     [s.sems[i] EXCEPT !.value = out.tmpVals[i]]]],
               <<>>, out.err) @@ [ch |-> 0, num |-> 0]
      [] out.kind = "block" ->
           Res(Enqueue(s, out.num, newWaiter(out.value, ch)), <<>>, "")
             @@ [ch |-> ch, num |-> out.num]
      [] out.kind = "commit" ->
           Res(s, applyOps(out.tmpVals, pid, now), "") @@ [ch |-> 0, num |-> 0]

\* func (s *Set) executeOps; ch is the channel newWaiter would make
executeOps(s, ops, pid, now, ch) ==
    LET out == dryRun(ops, 1, Values(s)) IN
    CASE out.kind = "error" -> Res(s, <<>>, out.err) @@ [ch |-> 0, num |-> 0]
      [] out.kind = "block" ->
           Res(Enqueue(s, out.num, newWaiter(out.value, ch)), <<>>, "")
             @@ [ch |-> ch, num |-> out.num]
      [] out.kind = "commit" ->
           Res(s, applyOps(out.tmpVals, pid, now), "") @@ [ch |-> 0, num |-> 0]

\* func (s *Set) ExecuteOps
ExecuteOps(s, ops, creds, pid, now, ch) ==
    IF s.dead THEN Res(s, <<>>, "EIDRM") @@ [ch |-> 0, num |-> 0]
    ELSE IF \E k \in 1..Len(ops) : ~findSem(s, ops[k].SemNum)
    THEN Res(s, <<>>, "EFBIG") @@ [ch |-> 0, num |-> 0]
    ELSE IF ~checkPerms(s, creds, IF readOnly(ops) THEN {Read} ELSE {Write})
    THEN Res(s, <<>>, "EACCES") @@ [ch |-> 0, num |-> 0]
    ELSE executeOps(s, ops, pid, now, ch)

\* func (s *Set) SetVal
SetVal(s, num, val, creds, pid, now) ==
    IF val < 0 \/ val > valueMax THEN Res(s, <<>>, "ERANGE")
    ELSE IF ~checkPerms(s, creds, {Write}) THEN Res(s, <<>>, "EACCES")
    ELSE IF ~findSem(s, num) THEN Res(s, <<>>, "ERANGE")
    ELSE Res(s, <<Ins("value", At(num), val), Ins("pid", At(num), pid),
                  Ins("changeTime", 1, now), wakeWaiters(At(num))>>, "")

\* SetValAll testing each value where it stores it: the values before the
\* first one that is too big are stored
SetValAllOneByOne(s, vals, creds, pid, now) ==
    LET body(i) == <<Ins("value", i, Int16(vals[i])), Ins("pid", i, pid), wakeWaiters(i)>>
        bad == {i \in 1..Len(vals) : vals[i] > valueMax}
        n == IF bad = {} THEN Len(vals) ELSE (CHOOSE i \in bad : \A j \in bad : i <= j) - 1
    IN  IF ~checkPerms(s, creds, {Write}) THEN Res(s, <<>>, "EACCES")
        ELSE IF bad # {} THEN Res(s, Concat([i \in 1..n |-> body(i)]), "ERANGE")
        ELSE Res(s, Concat([i \in 1..n |-> body(i)]) \o <<Ins("changeTime", 1, now)>>, "")

\* func (s *Set) SetValAll (len(vals) = s.Size() is the caller's duty)
SetValAll(s, vals, creds, pid, now) ==
    LET body(i) == <<Ins("value", i, Int16(vals[i])), Ins("pid", i, pid), wakeWaiters(i)>>
    IN  IF \E i \in 1..Len(vals) : vals[i] > valueMax THEN Res(s, <<>>, "ERANGE")
        ELSE IF ~checkPerms(s, creds, {Write}) THEN Res(s, <<>>, "EACCES")
        ELSE Res(s, Concat([i \in 1..Len(vals) |-> body(i)]) \o <<Ins("changeTime", 1, now)>>, "")

\* the position of the first waiter of l from position k on whose channel is
\* ch, 0 if none: the loop of AbortWait
RECURSIVE findWaiter(_, _, _)
findWaiter(l, ch, k) ==
    IF k > Len(l) THEN 0
    ELSE IF l[k].ch = ch THEN k
    ELSE findWaiter(l, ch, k + 1)

\* AbortWait unlinking the waiter at the front, whatever its channel
AbortWaitFront(s, num, ch) ==
    IF s.sems[At(num)].waiters = <<>> THEN Res(s, <<>>, "")
    ELSE Res([s EXCEPT !.sems[At(num)].waiters = Remove(@, 1)], <<>>, "")

\* func (s *Set) AbortWait
AbortWait(s, num, ch) ==
    LET k == findWaiter(s.sems[At(num)].waiters, ch, 1) IN
    IF k = 0 THEN Res(s, <<>>, "")
    ELSE Res([s EXCEPT !.sems[At(num)].waiters = Remove(@, k)], <<>>, "")

\* func (s *Set) Change
Change(s, creds, owner, perms, now) ==
    IF ~checkCredentials(s, creds) /\ ~checkCapability(s, creds)
    THEN Res(s, <<>>, "EACCES")
    ELSE Res([s EXCEPT !.owner = owner, !.perms = perms, !.changeTime = now], <<>>, "")

\* the checks GetVal, GetPID and countWaiters share
ReadSem(s, num, creds) ==
    IF ~checkPerms(s, creds, {Read}) THEN "EACCES"
    ELSE IF ~findSem(s, num) THEN "ERANGE"
    ELSE ""

\* func (s *Set) GetVal
GetVal(s, num, creds) ==
    LET err == ReadSem(s, num, creds) IN
    Res(s, <<>>, err) @@ [val |-> IF err = "" THEN s.sems[At(num)].value ELSE 0]

\* func (s *Set) GetPID
GetPID(s, num, creds) ==
    LET err == ReadSem(s, num, creds) IN
    Res(s, <<>>, err) @@ [val |-> IF err = "" THEN s.sems[At(num)].pid ELSE 0]

\* func (s *Set) GetValAll: uint16(sem.value) of every sem
GetValAll(s, creds) ==
    IF ~checkPerms(s, creds, {Read}) THEN Res(s, <<>>, "EACCES") @@ [val |-> <<>>]
    ELSE Res(s, <<>>, "") @@ [val |-> [i \in 1..Size(s) |-> s.sems[i].value % 65536]]

\* func (s *Set) GetStat: SemOTime, SemCTime and SemNSems of the SemidDS
GetStat(s, creds) ==
    IF ~checkPerms(s, creds, {Read}) THEN Res(s, <<>>, "EACCES") @@ [val |-> <<>>]
    ELSE Res(s, <<>>, "") @@ [val |-> <<s.opTime, s.changeTime, Size(s)>>]

\* func (s *Set) countWaiters with pred = (w.value == 0) when zero, else
\* (w.value < 0)
countWaiters(s, num, creds, zero) ==
    LET err == ReadSem(s, num, creds)
        l == s.sems[At(num)].waiters
        pred(w) == IF zero THEN w.value = 0 ELSE w.value < 0
    IN  Res(s, <<>>, err)
          @@ [val |-> IF err = "" THEN Cardinality({k \in 1..Len(l) : pred(l[k])})
                      ELSE 0]

\* func (s *Set) CountZeroWaiters
CountZeroWaiters(s, num, creds) == countWaiters(s, num, creds, TRUE)

\* func (s *Set) CountNegativeWaiters
CountNegativeWaiters(s, num, creds) == countWaiters(s, num, creds, FALSE)

(***************************************************************************)
(* Registry.  r = [semaphores, indexes, lastIDUsed]; hp is the heap.       *)
(***************************************************************************)
\* the empty Go map
EmptyMap == [x \in {} |-> 0]

\* m[k] = v on a Go map
Put(m, k, v) == [x \in DOMAIN m \cup {k} |-> IF x = k THEN v ELSE m[x]]

\* delete(m, k)
Delete(m, k) == [x \in DOMAIN m \ {k} |-> m[x]]

RECURSIVE Sum(_, _)
Sum(f, S) == IF S = {} THEN 0 ELSE LET x == CHOOSE x \in S : TRUE IN f[x] + Sum(f, S \ {x})

\* func NewRegistry
NewRegistry == [semaphores |-> EmptyMap, indexes |-> EmptyMap, lastIDUsed |-> 0]

\* func (r *Registry) totalSems
totalSems(r, hp) ==
    Sum([id \in DOMAIN r.semaphores |-> Size(hp[r.semaphores[id]])], DOMAIN r.semaphores)

\* findByKey that finds nothing
findByKeyNone(r, hp, key) == {0}

\* func (r *Registry) findByKey: the sets a range over the map may return
\* (the order of a range over a Go map is not fixed), {0} for nil
findByKey(r, hp, key) ==
    LET hits == {r.semaphores[id] : id \in {i \in DOMAIN r.semaphores :
                                              hp[r.semaphores[i]].key = key}}
    IN  IF hits = {} THEN {0} ELSE hits

\* func (r *Registry) findIndexByID: the indexes a range over the map may
\* return, {-1} for !found
findIndexByID(r, id) ==
    LET hits == {k \in DOMAIN r.indexes : r.indexes[k] = id}
    IN  IF hits = {} THEN {0 - 1} ELSE hits

\* func (r *Registry) findFirstAvailableIndex: the index, -1 for !found
findFirstAvailableIndex(r) ==
    LET free == {k \in 0..(setsMax - 1) : k \notin DOMAIN r.indexes}
    IN  IF free = {} THEN 0 - 1 ELSE CHOOSE k \in free : \A j \in free : k <= j

\* TooManySets letting one set more in
TooManySetsOffByOne(nsets) == nsets > setsMax

\* the system limits of FindOrCreate
TooManySets(nsets) == nsets >= setsMax

TooManySems(total, nsems) == total > semsTotalMax - nsems

\* the loop of newSet that finds the next available ID, id being the loop
\* variable when the loop condition is evaluated; -1 when the loop ends
RECURSIVE nextID(_, _, _)
nextID(id, last, sems) ==
    IF id = last THEN 0 - 1
    ELSE IF id < 0 THEN nextID(Inc32(0), last, sems)  \* id = 0; continue; id++
    ELSE IF id \notin DOMAIN sems THEN id
    ELSE nextID(Inc32(id), last, sems)

\* a zero sem, and the Set newSet allocates
Sem0 == [value |-> 0, waiters |-> <<>>, pid |-> 0]

Set0(key, owner, perms, nsems, now) ==
    [ID |-> 0, key |-> key, owner |-> owner, creator |-> owner, perms |-> perms,
     opTime |-> 0, changeTime |-> now, sems |-> [i \in 1..nsems |-> Sem0],
     dead |-> FALSE]

\* what a Registry method leaves and returns
RegRes(r, hp, err, set) == [r |-> r, heap |-> hp, err |-> err, set |-> set, panic |-> ""]

Panic(r, hp, msg) == [r |-> r, heap |-> hp, err |-> "", set |-> 0, panic |-> msg]

\* the maps and lastIDUsed as newSet updates them for the new set
register(r, id, index, ref) ==
    [semaphores |-> Put(r.semaphores, id, ref),
     indexes |-> Put(r.indexes, index, id),
     lastIDUsed |-> id]

\* func (r *Registry) newSet
newSet(r, hp, key, owner, perms, nsems, now) ==
    LET id == nextID(Inc32(r.lastIDUsed), r.lastIDUsed, r.semaphores)
        index == findFirstAvailableIndex(r)
        set == [Set0(key, owner, perms, nsems, now) EXCEPT !.ID = id]
    IN  IF id < 0 THEN RegRes(r, hp, "ENOMEM", 0)
        ELSE IF index < 0 THEN Panic(r, hp, "unable to find an available index")
        ELSE RegRes(register(r, id, index, Len(hp) + 1), Append(hp, set), "",
                    Len(hp) + 1)

\* func (r *Registry) FindOrCreate; a holds the arguments and the caller,
\* found is what findByKey returns (0 for nil)
FindOrCreate(r, hp, a, found) ==
    IF a.nsems < 0 \/ a.nsems > semsMax THEN RegRes(r, hp, "EINVAL", 0)
    ELSE IF ~a.private /\ found # 0 THEN
      IF ~checkPerms(hp[found], Creds(a.task), PermsFromMode(a.mode))
      THEN RegRes(r, hp, "EACCES", 0)
      ELSE IF a.nsems > Size(hp[found]) THEN RegRes(r, hp, "EINVAL", 0)
      ELSE IF a.create /\ a.exclusive THEN RegRes(r, hp, "EEXIST", 0)
      ELSE RegRes(r, hp, "", found)
    ELSE IF ~a.private /\ ~a.create THEN RegRes(r, hp, "ENOENT", 0)
    ELSE IF a.nsems = 0 THEN RegRes(r, hp, "EINVAL", 0)
    ELSE IF TooManySets(Cardinality(DOMAIN r.semaphores)) THEN RegRes(r, hp, "ENOSPC", 0)
    ELSE IF TooManySems(totalSems(r, hp), a.nsems) THEN RegRes(r, hp, "ENOSPC", 0)
    ELSE newSet(r, hp, a.key, FileOwnerFromContext(a.task), a.mode, a.nsems, a.now)

\* removeMaps without delete(r.indexes, index)
removeMapsKeepIndex(r, id, index) == [r EXCEPT !.semaphores = Delete(@, id)]

\* the deletes of RemoveID
removeMaps(r, id, index) ==
    [r EXCEPT !.semaphores = Delete(@, id), !.indexes = Delete(@, index)]

\* func (r *Registry) RemoveID up to set.destroy(); index is what
\* findIndexByID returns (-1 for !found); set is the Set to destroy, 0 if none
RemoveID(r, hp, id, creds, index) ==
    IF id \notin DOMAIN r.semaphores THEN RegRes(r, hp, "EINVAL", 0)
    ELSE IF index < 0 THEN Panic(r, hp, "unable to find an index for ID")
    ELSE
      LET set == hp[r.semaphores[id]] IN
      IF ~checkCredentials(set, creds) /\ ~checkCapability(set, creds)
      THEN RegRes(r, hp, "EACCES", 0)
      ELSE RegRes(removeMaps(r, set.ID, index), hp, "", r.semaphores[id])

\* func (r *Registry) FindByID: the Set, 0 for nil
FindByID(r, id) == IF id \in DOMAIN r.semaphores THEN r.semaphores[id] ELSE 0

\* func (r *Registry) FindByIndex: the Set, 0 for nil
FindByIndex(r, index) ==
    IF index \notin DOMAIN r.indexes THEN 0 ELSE FindByID(r, r.indexes[index])

(***************************************************************************)
(* Actions.  A call of a method is one step, taken while no other call is  *)
(* being looked at; it records the call and the state it started from.     *)
(* Return forgets both, and the next call can start.                       *)
(***************************************************************************)
NoPre == [op |-> "none"]

\* no call is being looked at and the program has not crashed
Idle == call.op = "none" /\ panicked = ""

\* a step of a caller that is not followed as a thread
Alone == Idle /\ UNCHANGED thr

\* mu of heap[s] is free
Unlocked(s) == pending[s] = <<>>

Returns(c) == call' = c /\ pre' = Snapshot

Return ==
    /\ call.op # "none"
    /\ call' = NoCall
    /\ pre' = NoPre
    /\ woken' = <<>>
    /\ UNCHANGED <<semaphores, indexes, lastIDUsed, heap, chans, sent, holder,
                   pending, panicked>>

\* semaphore values explored: within MaxVal of 0, of valueMax and of MinInt16
InWindow(v) ==
    \/ (v >= 0 - MaxVal /\ v <= MaxVal)
    \/ v >= valueMax - MaxVal
    \/ v <= MinInt16 + MaxVal

Explored(s) == \A i \in 1..Len(s.sems) : InWindow(s.sems[i].value)

\* heap[s] becomes set and the statements prog run on it under its mu, with
\* the channels chs (snt: their send counts)
Runs(s, set, prog, chs, snt) ==
    LET res == run(prog, [set |-> set, chans |-> chs, sent |-> snt, order |-> <<>>])
    IN  /\ heap' = [heap EXCEPT ![s] = res.m.set]
        /\ woken' = res.m.order
        /\ chans' = res.m.chans
        /\ sent' = res.m.sent
        /\ pending' = [pending EXCEPT ![s] = res.rest]
        /\ Explored(res.m.set)

\* what the properties see of a method's result: all but the Set and the
\* statements; a method blocked in a send has not returned
Seen(s, res) ==
    [f \in DOMAIN res \ {"set", "prog"} |->
       IF f = "err" /\ pending'[s] # <<>> THEN "blocked in send" ELSE res[f]]

\* a call of a Set method that hands out no channel
CallSet(s, c, res) ==
    /\ Idle
    /\ Unlocked(s)
    /\ Runs(s, res.set, res.prog, chans, sent)
    /\ UNCHANGED <<semaphores, indexes, lastIDUsed, holder, panicked>>
    /\ Returns(c @@ Seen(s, res))

Waiting(s, num) == [state |-> "waiting", set |-> s, num |-> num]
Done == [state |-> "done", set |-> 0, num |-> 0]

CallExecuteOps(s, t, ops, now) ==
    LET ch == Len(chans) + 1
        res == ExecuteOps(heap[s], ops, Creds(t), Pid(t), now, ch)
    IN
    /\ Idle
    /\ Unlocked(s)
    /\ IF res.ch # 0
       THEN /\ ch <= MaxWaiters
            /\ Runs(s, res.set, res.prog, Append(chans, 0), Append(sent, 0))
            /\ holder' = Append(holder, Waiting(s, res.num))
       ELSE /\ Runs(s, res.set, res.prog, chans, sent)
            /\ holder' = holder
    /\ UNCHANGED <<semaphores, indexes, lastIDUsed, panicked>>
    /\ Returns([op |-> "ExecuteOps", set |-> s, task |-> t, ops |-> ops] @@ Seen(s, res))

CallSetVal(s, t, num, val, now) ==
    CallSet(s, [op |-> "SetVal", set |-> s, task |-> t, num |-> num, val |-> val],
            SetVal(heap[s], num, val, Creds(t), Pid(t), now))

CallSetValAll(s, t, vals, now) ==
    CallSet(s, [op |-> "SetValAll", set |-> s, task |-> t, vals |-> vals],
            SetValAll(heap[s], vals, Creds(t), Pid(t), now))

\* the caller of ExecuteOps gives up waiting on the channel it was handed
CallAbortWait(ch) ==
    LET s == holder[ch].set
        num == holder[ch].num
        res == AbortWait(heap[s], num, ch)
    IN
    /\ Idle
    /\ holder[ch].state = "waiting"
    /\ Unlocked(s)
    /\ Runs(s, res.set, res.prog, chans, sent)
    /\ holder' = [holder EXCEPT ![ch] = Done]
    /\ UNCHANGED <<semaphores, indexes, lastIDUsed, panicked>>
    /\ Returns([op |-> "AbortWait", set |-> s, num |-> num, ch |-> ch] @@ Seen(s, res))

\* the caller of ExecuteOps receives from the channel it was handed (<-ch);
\* it will call ExecuteOps again
Receive(ch) ==
    /\ Idle
    /\ holder[ch].state = "waiting"
    /\ chans[ch] = 1
    /\ chans' = [chans EXCEPT ![ch] = 0]
    /\ holder' = [holder EXCEPT ![ch] = Done]
    /\ UNCHANGED <<semaphores, indexes, lastIDUsed, heap, sent, pending, panicked,
                   woken, call, pre>>

\* the method blocked in a send on a channel of heap[s] goes on once the
\* channel has room
Resume(s) ==
    /\ Idle
    /\ pending[s] # <<>>
    /\ run(pending[s], [set |-> heap[s], chans |-> chans, sent |-> sent,
                         order |-> <<>>]).rest # pending[s]
    /\ Runs(s, heap[s], pending[s], chans, sent)
    /\ UNCHANGED <<semaphores, indexes, lastIDUsed, holder, panicked>>
    /\ Returns([op |-> "Resume", set |-> s,
                err |-> IF pending'[s] # <<>> THEN "blocked in send" ELSE ""])

CallChange(s, t, owner, perms, now) ==
    CallSet(s, [op |-> "Change", set |-> s, task |-> t, owner |-> owner, perms |-> perms],
            Change(heap[s], Creds(t), owner, perms, now))

CallGetVal(s, t, num) ==
    CallSet(s, [op |-> "GetVal", set |-> s, task |-> t, num |-> num],
            GetVal(heap[s], num, Creds(t)))

CallGetPID(s, t, num) ==
    CallSet(s, [op |-> "GetPID", set |-> s, task |-> t, num |-> num],
            GetPID(heap[s], num, Creds(t)))

CallGetValAll(s, t) ==
    CallSet(s, [op |-> "GetValAll", set |-> s, task |-> t], GetValAll(heap[s], Creds(t)))

CallGetStat(s, t) ==
    CallSet(s, [op |-> "GetStat", set |-> s, task |-> t], GetStat(heap[s], Creds(t)))

CallCountZeroWaiters(s, t, num) ==
    CallSet(s, [op |-> "CountZeroWaiters", set |-> s, task |-> t, num |-> num],
            CountZeroWaiters(heap[s], num, Creds(t)))

CallCountNegativeWaiters(s, t, num) ==
    CallSet(s, [op |-> "CountNegativeWaiters", set |-> s, task |-> t, num |-> num],
            CountNegativeWaiters(heap[s], num, Creds(t)))

Reg == [semaphores |-> semaphores, indexes |-> indexes, lastIDUsed |-> lastIDUsed]

\* the registry and what a Registry method recorded in res leaves of it
Registers(res) ==
    /\ semaphores' = res.r.semaphores
    /\ indexes' = res.r.indexes
    /\ lastIDUsed' = res.r.lastIDUsed
    /\ panicked' = res.panic

\* FindOrCreate whose findByKey returns found (0 for nil, and when private)
FoundOrCreated(a, found) ==
    LET res == FindOrCreate(Reg, heap, a, found) IN
    /\ Idle
    /\ found # 0 => Unlocked(found)
    /\ Len(res.heap) <= MaxObjs
    /\ Registers(res)
    /\ heap' = res.heap
    /\ pending' = IF Len(res.heap) > Len(heap) THEN Append(pending, <<>>) ELSE pending
    /\ UNCHANGED <<chans, sent, holder, woken>>
    /\ Returns([op |-> "FindOrCreate", args |-> a, err |-> res.err, set |-> res.set])

CallFindOrCreate(a) ==
    \E found \in IF a.private THEN {0} ELSE findByKey(Reg, heap, a.key) :
      FoundOrCreated(a, found)

CallRemoveID(t, id) ==
    \E index \in findIndexByID(Reg, id) :
      LET res == RemoveID(Reg, heap, id, Creds(t), index)
          c == [op |-> "RemoveID", task |-> t, id |-> id, set |-> res.set]
      IN
      /\ Idle
      /\ id \in DOMAIN semaphores /\ index >= 0 => Unlocked(semaphores[id])
      /\ Registers(res)
      /\ IF res.set # 0
         THEN /\ Runs(res.set, heap[res.set], destroy(heap[res.set]), chans, sent)
              /\ Returns(c @@ [err |-> IF pending'[res.set] # <<>>
                                       THEN "blocked in send" ELSE res.err])
         ELSE /\ UNCHANGED <<heap, chans, sent, pending, woken>>
              /\ Returns(c @@ [err |-> res.err])
      /\ UNCHANGED holder

(***************************************************************************)
(* What the callers pass.                                                  *)
(***************************************************************************)
SetTasks == 1..2
SemNums == 0..semsMax
SemFlgs == {0, IPC_NOWAIT}
SemOps == {MinInt16, 0 - 1, 0, 1}
Sembufs == [SemNum : SemNums, SemOp : SemOps, SemFlg : SemFlgs]
Batches == UNION {[1..n -> Sembufs] : n \in 1..MaxOps}
\* the batches of one operation that adds or takes at most MaxVal
Singles == {ops \in [1..1 -> Sembufs] : ops[1].SemOp \in (0 - MaxVal)..MaxVal}
\* val of SetVal (int16) and of SetValAll (uint16)
SetVals == {0 - 1, 0, 1, valueMax}
SetAllVals == {0, 1, valueMax, valueMax + 1}
SmallVals == {val \in SetVals : val <= MaxVal}
Handles == 1..Len(heap)
IDs == 0..(MaxObjs + 1)

InitWith(r, hp, chs, hld) ==
    /\ semaphores = r.semaphores
    /\ indexes = r.indexes
    /\ lastIDUsed = r.lastIDUsed
    /\ heap = hp
    /\ pending = [s \in 1..Len(hp) |-> <<>>]
    /\ chans = chs
    /\ sent = chs
    /\ holder = hld
    /\ panicked = ""
    /\ woken = <<>>
    /\ call = NoCall
    /\ pre = NoPre

\* the registry in which task 1 has created a set of semsMax semaphores
\* with mode 0640
Created(now) ==
    newSet(NewRegistry, <<>>, 1, FileOwnerFromContext(1), Mode0640, semsMax, now)

(***************************************************************************)
(* Spec: the life of one set, from its creation to after its removal.      *)
(* The callers pass batches of one operation.                              *)
(***************************************************************************)
Init ==
    /\ \E now \in Times : InitWith(Created(now).r, Created(now).heap, <<>>, <<>>)
    /\ thr = <<>>

Observe(s, t) ==
    \/ Idle /\ \E num \in SemNums : CallGetVal(s, t, num)
    \/ Idle /\ \E num \in SemNums : CallGetPID(s, t, num)
    \/ CallGetValAll(s, t)
    \/ CallGetStat(s, t)
    \/ Idle /\ \E num \in SemNums : CallCountZeroWaiters(s, t, num)
    \/ Idle /\ \E num \in SemNums : CallCountNegativeWaiters(s, t, num)

Next ==
    \/ Alone /\ \E s \in Handles, t \in SetTasks, ops \in Singles, now \in Times :
         CallExecuteOps(s, t, ops, now)
    \/ Alone /\ \E s \in Handles, t \in SetTasks, num \in SemNums, val \in SmallVals, now \in Times :
         CallSetVal(s, t, num, val, now)
    \/ Alone /\ \E s \in Handles, t \in SetTasks, now \in Times :
         \E vals \in [1..Size(heap[s]) -> SmallVals \cap SetAllVals] :
           CallSetValAll(s, t, vals, now)
    \/ Alone /\ \E s \in Handles, t \in SetTasks, now \in Times :
         CallChange(s, t, heap[s].owner, heap[s].perms, now)
    \/ Alone /\ \E s \in Handles, t \in SetTasks : Observe(s, t)
    \/ Alone /\ \E ch \in 1..Len(chans) : CallAbortWait(ch)
    \/ Alone /\ \E ch \in 1..Len(chans) : Receive(ch)
    \/ Alone /\ \E s \in Handles : Resume(s)
    \/ Alone /\ \E t \in SetTasks, id \in 0..lastIDUsed : CallRemoveID(t, id)
    \/ Return /\ UNCHANGED thr

Spec == Init /\ [][Next]_vars

(***************************************************************************)
(* The states a set is in after task 1 has set the values of its           *)
(* semaphores and n callers have then blocked on it, one after the other.  *)
(***************************************************************************)
InitVals == SetAllVals \cap 0..valueMax
Blockers ==
    {op \in [SemNum : SemNums, SemOp : (0 - MaxVal - 1)..0, SemFlg : {0}] : TRUE}

\* b = [set, chans, holder, ok] after one more caller has blocked with op
Block(b, op) ==
    LET ch == Len(b.chans) + 1
        res == ExecuteOps(b.set, <<op>>, Creds(1), Pid(1), 1, ch)
    IN  IF b.ok /\ res.ch # 0
        THEN [set |-> res.set, chans |-> Append(b.chans, 0),
              holder |-> Append(b.holder, Waiting(1, res.num)), ok |-> TRUE]
        ELSE [b EXCEPT !.ok = FALSE]

RECURSIVE Blocks(_, _, _)
Blocks(b, ops, k) ==
    IF k > Len(ops) THEN b ELSE Blocks(Block(b, ops[k]), ops, k + 1)

InitBlocked(n) ==
    \E vals \in [1..semsMax -> InitVals], ops \in [1..n -> Blockers] :
      LET new == Created(1)
          sv == SetValAll(new.heap[1], vals, Creds(1), Pid(1), 1)
          m == run(sv.prog, [set |-> sv.set, chans |-> <<>>, sent |-> <<>>,
                             order |-> <<>>]).m
          b == Blocks([set |-> m.set, chans |-> <<>>, holder |-> <<>>, ok |-> TRUE],
                      ops, 1)
      IN  /\ b.ok
          /\ InitWith(new.r, <<b.set>>, b.chans, b.holder)
          /\ thr = <<>>

(***************************************************************************)
(* SpecOps: one call of ExecuteOps, SetVal, SetValAll or AbortWait, with   *)
(* batches of up to MaxOps operations, on a set on which up to MaxWaiters  *)
(* callers are blocked.                                                    *)
(***************************************************************************)
InitOps == \E n \in 0..MaxWaiters : InitBlocked(n)

NextOps ==
    \/ Alone /\ \E s \in Handles, t \in SetTasks, ops \in Batches, now \in Times :
         CallExecuteOps(s, t, ops, now)
    \/ Alone /\ \E s \in Handles, t \in SetTasks, num \in SemNums, val \in SetVals, now \in Times :
         CallSetVal(s, t, num, val, now)
    \/ Alone /\ \E s \in Handles, t \in SetTasks, now \in Times :
         \E vals \in [1..Size(heap[s]) -> SetAllVals] : CallSetValAll(s, t, vals, now)
    \/ Alone /\ \E ch \in 1..Len(chans) : CallAbortWait(ch)

SpecOps == InitOps /\ [][NextOps]_vars

(***************************************************************************)
(* SpecWake: one call that wakes or enqueues, with batches of one          *)
(* operation, on a set on which up to MaxQueued callers are blocked.       *)
(***************************************************************************)
InitWake == \E n \in 0..MaxQueued : InitBlocked(n)

NextWake ==
    \/ Alone /\ \E s \in Handles, t \in SetTasks, ops \in Singles, now \in Times :
         CallExecuteOps(s, t, ops, now)
    \/ Alone /\ \E s \in Handles, t \in SetTasks, num \in SemNums, val \in SetVals, now \in Times :
         CallSetVal(s, t, num, val, now)
    \/ Alone /\ \E s \in Handles, t \in SetTasks, now \in Times :
         \E vals \in [1..Size(heap[s]) -> SetAllVals] : CallSetValAll(s, t, vals, now)
    \/ Alone /\ \E ch \in 1..Len(chans) : CallAbortWait(ch)

SpecWake == InitWake /\ [][NextWake]_vars

(***************************************************************************)
(* SpecRegistry: the sets of a registry come and go.                       *)
(***************************************************************************)
InitRegistry == InitWith(NewRegistry, <<>>, <<>>, <<>>) /\ thr = <<>>

Nsems == (0 - 1)..(semsMax + 1)
\* private; find only; find or create; create only
Flags ==
    {[private |-> TRUE, create |-> FALSE, exclusive |-> FALSE],
     [private |-> FALSE, create |-> FALSE, exclusive |-> FALSE],
     [private |-> FALSE, create |-> TRUE, exclusive |-> FALSE],
     [private |-> FALSE, create |-> TRUE, exclusive |-> TRUE]}
CreateArgs ==
    {[task |-> t, key |-> key, nsems |-> nsems, mode |-> Mode0640,
      private |-> f.private, create |-> f.create, exclusive |-> f.exclusive,
      now |-> now] :
       t \in SetTasks, key \in Keys, nsems \in Nsems, f \in Flags, now \in Times}

NextRegistry ==
    \/ Alone /\ \E a \in CreateArgs : CallFindOrCreate(a)
    \/ Alone /\ \E t \in SetTasks, id \in IDs : CallRemoveID(t, id)
    \/ Return /\ UNCHANGED thr

SpecRegistry == InitRegistry /\ [][NextRegistry]_vars

(***************************************************************************)
(* SpecIDs: the sets of a registry come and go when lastIDUsed has come    *)
(* close to the largest int32: the IDs from 2 on have been handed out, and *)
(* their sets removed, and the set that got ID 1 may still be there.       *)
(***************************************************************************)
InitIDs ==
    \E last \in {MaxInt32 - 2, MaxInt32 - 1}, old \in BOOLEAN :
      LET new == IF old THEN Created(1) ELSE RegRes(NewRegistry, <<>>, "", 0) IN
      /\ InitWith([new.r EXCEPT !.lastIDUsed = last], new.heap, <<>>, <<>>)
      /\ thr = <<>>

IDCreateArgs == {a \in CreateArgs : a.private /\ a.nsems = 1}

NextIDs ==
    \/ Alone /\ \E a \in IDCreateArgs : CallFindOrCreate(a)
    \/ Alone /\ \E t \in SetTasks, id \in DOMAIN semaphores : CallRemoveID(t, id)
    \/ Return /\ UNCHANGED thr

SpecIDs == InitIDs /\ [][NextIDs]_vars

(***************************************************************************)
(* Threads and mutexes.  A thread runs one method at a time: it takes the  *)
(* mutexes the method locks, one Lock() per step and in the order of the   *)
(* Lock() statements, runs the rest of the method holding them, and gives  *)
(* them back when the method returns (the deferred Unlock()s).  held is    *)
(* the sequence of the mutexes the thread holds, in the order it took      *)
(* them; todo is the sequence of those it will still lock.                 *)
(***************************************************************************)
\* Registry.mu; the mutex of heap[s] (Set.mu) is s
RegistryMu == 0

Threads == 1..MaxThreads

NoThread == [pc |-> "idle", c |-> NoCall, found |-> 0, held |-> <<>>, todo |-> <<>>]

\* the mutexes thread th holds
Held(th) == {thr[th].held[k] : k \in DOMAIN thr[th].held}

\* no thread holds mu
Free(mu) == \A th \in DOMAIN thr : mu \notin Held(th)

\* a method of Set that locked the registry while it holds s.mu
SetThenRegistryLocks(s) == <<s, RegistryMu>>

\* a method of Set locks s.mu and nothing else (SetVal after its check of
\* val)
SetLocks(s) == <<s>>

\* the Lock() statements a method reaches before its first lookup
FirstLocks(c) ==
    CASE c.op = "FindOrCreate" ->
           IF c.args.nsems < 0 \/ c.args.nsems > semsMax THEN <<>> ELSE <<RegistryMu>>
      [] c.op = "RemoveID" -> <<RegistryMu>>
      [] c.op = "SetVal" ->
           IF c.val < 0 \/ c.val > valueMax THEN <<>> ELSE SetLocks(c.set)

\* what a method holding r.mu looks up: the set FindOrCreate finds by key,
\* the set RemoveID finds by ID; 0 for nil
Lookups(c) ==
    CASE c.op = "FindOrCreate" ->
           IF c.args.private THEN {0} ELSE findByKey(Reg, heap, c.args.key)
      [] c.op = "RemoveID" ->
           IF c.id \in DOMAIN semaphores /\ findIndexByID(Reg, c.id) # {0 - 1}
           THEN {semaphores[c.id]} ELSE {0}
      [] OTHER -> {0}

\* set.mu.Lock() of FindOrCreate and of RemoveID on the set they found
FoundLocks(found) == IF found = 0 THEN <<>> ELSE <<found>>

\* the threads that are in method op
In(op) == {th \in DOMAIN thr : thr[th].c.op = op}

\* thread th calls a method; no more sets are made than MaxObjs
Enter(th, c) ==
    /\ thr[th].pc = "idle"
    /\ c.op = "FindOrCreate" => Len(heap) + Cardinality(In("FindOrCreate")) < MaxObjs
    /\ thr' = [thr EXCEPT ![th] = [pc |-> "run", c |-> c, found |-> 0,
                                   held |-> <<>>, todo |-> FirstLocks(c)]]
    /\ UNCHANGED <<semaphores, indexes, lastIDUsed, heap, chans, sent, holder,
                   pending, panicked, woken, call, pre>>

\* mu.Lock() returns in thread th
Lock(th) ==
    LET mu == Head(thr[th].todo) IN
    /\ thr[th].pc = "run"
    /\ thr[th].todo # <<>>
    /\ Free(mu)
    /\ IF mu = RegistryMu
       THEN \E found \in Lookups(thr[th].c) :
              thr' = [thr EXCEPT ![th].held = Append(@, mu), ![th].found = found,
                                 ![th].todo = Tail(@) \o FoundLocks(found)]
       ELSE thr' = [thr EXCEPT ![th].held = Append(@, mu), ![th].todo = Tail(@)]
    /\ UNCHANGED <<semaphores, indexes, lastIDUsed, heap, chans, sent, holder,
                   pending, panicked, woken, call, pre>>

\* thread th has taken every mutex of its method and runs the method
Locked(th) == thr[th].pc = "run" /\ thr[th].todo = <<>>

Ran(th) == thr' = [thr EXCEPT ![th].pc = "return"]

\* the method of thread th returns and its deferred Unlock()s run
Leave(th) ==
    /\ thr[th].pc = "return"
    /\ Return
    /\ thr' = [thr EXCEPT ![th] = NoThread]

(***************************************************************************)
(* SpecLocks: MaxThreads threads call FindOrCreate, RemoveID and SetVal on *)
(* the sets of one registry, a mutex at a time.  No caller is blocked on a *)
(* semaphore, so every send of a method completes.                         *)
(***************************************************************************)
InitLocks ==
    /\ InitWith(Created(1).r, Created(1).heap, <<>>, <<>>)
    /\ thr = [th \in Threads |-> NoThread]

\* a private set; the set of a key, created if there is none
LockCreateArgs ==
    {[task |-> 1, key |-> key, nsems |-> 1, mode |-> Mode0640, private |-> private,
      create |-> TRUE, exclusive |-> FALSE, now |-> 1] :
       key \in Keys, private \in BOOLEAN}

LockCalls ==
    {[op |-> "FindOrCreate", args |-> a] : a \in LockCreateArgs}
    \cup {[op |-> "RemoveID", task |-> 1, id |-> id] : id \in 1..lastIDUsed}
    \cup {[op |-> "SetVal", set |-> s, task |-> 1, num |-> 0, val |-> 1, now |-> 1] :
            s \in Handles}

NextLocks ==
    \/ \E th \in Threads, c \in LockCalls : Enter(th, c)
    \/ \E th \in Threads : Lock(th)
    \/ \E th \in Threads :
         /\ Locked(th) /\ thr[th].c.op = "FindOrCreate"
         /\ FoundOrCreated(thr[th].c.args, thr[th].found)
         /\ Ran(th)
    \/ \E th \in Threads :
         /\ Locked(th) /\ thr[th].c.op = "RemoveID"
         /\ CallRemoveID(thr[th].c.task, thr[th].c.id)
         /\ Ran(th)
    \/ \E th \in Threads :
         /\ Locked(th) /\ thr[th].c.op = "SetVal"
         /\ CallSetVal(thr[th].c.set, thr[th].c.task, thr[th].c.num, thr[th].c.val,
                       thr[th].c.now)
         /\ Ran(th)
    \/ \E th \in Threads : Leave(th)

SpecLocks == InitLocks /\ [][NextLocks]_vars

(***************************************************************************)
(* SpecLive: a caller and a mutator on one set.  The caller (thread 1)     *)
(* runs the loop every caller wraps around ExecuteOps: handed a channel,   *)
(* it receives from it and calls ExecuteOps again with its batch; it is    *)
(* done when ExecuteOps returns no channel.  At the start ExecuteOps has   *)
(* blocked it.  The mutator (thread 2) makes up to MaxMutations calls of   *)
(* ExecuteOps (with IPC_NOWAIT), SetVal and SetValAll.  The values stay    *)
(* within MaxVal of 0, so that every call of the caller is explored.  The  *)
(* scheduler is fair to the caller's goroutine.                            *)
(***************************************************************************)
\* the operations a caller blocks with that take at most MaxVal
LiveBlockers == {op \in Blockers : op.SemOp >= 0 - MaxVal}

Caller(ops, ch) == [pc |-> "wait", ops |-> ops, ch |-> ch, err |-> ""]
Mutator(n) == [pc |-> "mutate", left |-> n]

InitLive ==
    \E vals \in [1..semsMax -> SmallVals \cap SetAllVals], op \in LiveBlockers :
      LET new == Created(1)
          sv == SetValAll(new.heap[1], vals, Creds(1), Pid(1), 1)
          m == run(sv.prog, [set |-> sv.set, chans |-> <<>>, sent |-> <<>>,
                             order |-> <<>>]).m
          b == Block([set |-> m.set, chans |-> <<>>, holder |-> <<>>, ok |-> TRUE], op)
      IN  /\ b.ok
          /\ InitWith(new.r, <<b.set>>, b.chans, b.holder)
          /\ thr = <<Caller(<<op>>, 1), Mutator(MaxMutations)>>

\* the caller calls ExecuteOps again
Drive ==
    /\ thr[1].pc = "call"
    /\ CallExecuteOps(1, 1, thr[1].ops, 1)
    /\ thr' = [thr EXCEPT ![1] = IF call'.ch # 0
                                 THEN [@ EXCEPT !.pc = "wait", !.ch = call'.ch]
                                 ELSE [@ EXCEPT !.pc = "done", !.err = call'.err]]

\* the caller receives from the channel it was handed
Wake ==
    /\ thr[1].pc = "wait"
    /\ Receive(thr[1].ch)
    /\ thr' = [thr EXCEPT ![1].pc = "call"]

\* the mutator has made one more call
Mutated ==
    /\ thr[2].left > 0
    /\ thr' = [thr EXCEPT ![2].left = @ - 1]

NoWaitSingles == {ops \in Singles : NoWait(ops[1])}

\* the mutator is the task with CAP_IPC_OWNER, which may alter the set
MutatorTasks == {4}

NextLive ==
    \/ Drive
    \/ Wake
    \/ Idle /\ Mutated /\ \E t \in MutatorTasks, ops \in NoWaitSingles :
         CallExecuteOps(1, t, ops, 1)
    \/ Idle /\ Mutated /\ \E t \in MutatorTasks, num \in SemNums, val \in SmallVals :
         CallSetVal(1, t, num, val, 1)
    \/ Idle /\ Mutated /\ \E t \in MutatorTasks :
         \E vals \in [1..Size(heap[1]) -> SmallVals \cap SetAllVals] :
           CallSetValAll(1, t, vals, 1)
    \/ Return /\ UNCHANGED thr

SpecLive ==
    /\ InitLive
    /\ [][NextLive]_vars
    /\ WF_vars(Drive)
    /\ WF_vars(Wake)
    /\ WF_vars(Return /\ UNCHANGED thr)

(***************************************************************************)
(* SpecDead: a set on which at most one caller is blocked is found,        *)
(* removed and used through the handles that are left; other sets are      *)
(* created under its key and removed.                                      *)
(***************************************************************************)
InitDead ==
    \E ops \in UNION {[1..n -> LiveBlockers] : n \in 0..1} :
      LET new == Created(1)
          b == Blocks([set |-> new.heap[1], chans |-> <<>>, holder |-> <<>>,
                       ok |-> TRUE], ops, 1)
      IN  /\ b.ok
          /\ InitWith(new.r, <<b.set>>, b.chans, b.holder)
          /\ thr = <<>>

\* task 1 asks for a set of one semaphore by the key of the first set
DeadCreateArgs ==
    {a \in CreateArgs : ~a.private /\ a.task = 1 /\ a.key = 1 /\ a.nsems = 1}

\* RemoveID is called by the creator of the sets and by a stranger (task 3);
\* ExecuteOps with one operation on semaphore 0 that takes 1 or waits for 0
NextDead ==
    \/ Alone /\ \E a \in DeadCreateArgs : CallFindOrCreate(a)
    \/ Alone /\ \E t \in {1, 3}, id \in 1..lastIDUsed : CallRemoveID(t, id)
    \/ Alone /\ \E s \in Handles, val \in SmallVals \cap SetAllVals, now \in Times :
         CallSetVal(s, 1, 0, val, now)
    \/ Alone /\ \E s \in Handles, op \in LiveBlockers, now \in Times :
         op.SemNum = 0 /\ CallExecuteOps(s, 1, <<op>>, now)
    \/ Return /\ UNCHANGED thr

SpecDead == InitDead /\ [][NextDead]_vars

(***************************************************************************)
(* Properties.  They are about the call that returned last (call), the     *)
(* state it started from (pre) and the state it left.                      *)
(***************************************************************************)
\* the set the call was made on, before and after the call
Before == pre.heap[call.set]
After == heap[call.set]

SetMethods ==
    {"ExecuteOps", "SetVal", "SetValAll", "GetVal", "GetValAll", "GetPID", "GetStat",
     "Change", "CountZeroWaiters", "CountNegativeWaiters"}

\* nothing a caller can see of the sets and the wake channels has changed
Untouched == heap = pre.heap /\ chans = pre.chans /\ sent = pre.sent

\* C1: an ExecuteOps call that returns EFBIG, EACCES, ERANGE or EWOULDBLOCK,
\* wherever in the batch the failing operation is, leaves the values, the
\* pids, opTime and the waiter queues of the set as they were.
ErrorLeavesSetUnchanged ==
    (call.op = "ExecuteOps"
       /\ call.err \in {"EFBIG", "EACCES", "ERANGE", "EWOULDBLOCK"}) => Untouched

\* a batch failed at its second operation, after a first operation that adds
\* 1 to a semaphore which is 0
ErrorAfterSatisfiableOp ==
    /\ call.op = "ExecuteOps"
    /\ call.err \in {"ERANGE", "EWOULDBLOCK"}
    /\ Len(call.ops) = 2
    /\ call.ops[1].SemOp = 1
    /\ Before.sems[At(call.ops[1].SemNum)].value = 0

\* the values the k-th operation of ops meets, ops[1..k-1] having been
\* applied to vals
RECURSIVE Shadow(_, _, _)
Shadow(vals, ops, k) ==
    IF k = 1 THEN vals
    ELSE [Shadow(vals, ops, k - 1) EXCEPT ![At(ops[k - 1].SemNum)] = @ + ops[k - 1].SemOp]

\* the k-th operation of ops can proceed: it waits for a zero that is there,
\* or it leaves its semaphore within 0..valueMax
Proceeds(vals, ops, k) ==
    LET v == Shadow(vals, ops, k)[At(ops[k].SemNum)] IN
    IF ops[k].SemOp = 0 THEN v = 0 ELSE v + ops[k].SemOp \in 0..valueMax

\* C2: when ExecuteOps returns a channel, the one change to the set is a new
\* waiter at the tail of the queue of the semaphore whose number is
\* returned; that number is the SemNum of the first operation of the batch
\* that cannot proceed on the shadow values, and the waiter's value is that
\* operation's SemOp; values, pids, opTime and the other queues are as they
\* were.
BlockOnlyAppendsWaiter ==
    (call.op = "ExecuteOps" /\ call.ch # 0) =>
      \E k \in 1..Len(call.ops) :
        /\ \A j \in 1..(k - 1) : Proceeds(Values(Before), call.ops, j)
        /\ ~Proceeds(Values(Before), call.ops, k)
        /\ call.num = call.ops[k].SemNum
        /\ After = [Before EXCEPT !.sems[At(call.num)].waiters =
                      Append(@, [value |-> call.ops[k].SemOp, ch |-> call.ch])]
        /\ \A s \in DOMAIN pre.heap : s # call.set => heap[s] = pre.heap[s]
        /\ \A c \in DOMAIN pre.chans : chans[c] = pre.chans[c] /\ sent[c] = pre.sent[c]

\* C3: after any ExecuteOps, SetVal and SetValAll calls, whatever 16-bit
\* SemOp the batches carry, the value of every semaphore is in 0..valueMax.
ValuesInRange ==
    \A s \in DOMAIN heap : \A i \in DOMAIN heap[s].sems :
      heap[s].sems[i].value \in 0..valueMax

\* the waiters of l are all waiters of old
NoNewWaiter(old, l) ==
    \A k \in DOMAIN l : \E j \in DOMAIN old : l[k] = old[j]

\* C8: if every operation of a batch carries IPC_NOWAIT, ExecuteOps returns
\* no channel and enqueues no waiter: it commits the batch or returns an
\* error, EWOULDBLOCK where the batch without the flags would have blocked.
NoWaitNeverBlocks ==
    (call.op = "ExecuteOps" /\ \A k \in DOMAIN call.ops : NoWait(call.ops[k])) =>
      LET plain == [k \in DOMAIN call.ops |-> [call.ops[k] EXCEPT !.SemFlg = 0]]
          blocks == ExecuteOps(Before, plain, Creds(call.task), Pid(call.task), 1,
                               Len(pre.chans) + 1).ch # 0
      IN  /\ call.ch = 0
          /\ Len(chans) = Len(pre.chans)
          /\ \A i \in DOMAIN After.sems :
               NoNewWaiter(Before.sems[i].waiters, After.sems[i].waiters)
          /\ blocks <=> call.err = "EWOULDBLOCK"
          /\ call.err # "" => Untouched

\* a batch of two operations with IPC_NOWAIT, the second of which would have
\* blocked, returned EWOULDBLOCK
NoWaitSecondOpFails ==
    /\ call.op = "ExecuteOps"
    /\ Len(call.ops) = 2
    /\ \A k \in DOMAIN call.ops : NoWait(call.ops[k])
    /\ call.ops[1].SemOp = 1
    /\ call.err = "EWOULDBLOCK"

\* C9: the queue of every semaphore is first in, first out: a blocking
\* ExecuteOps puts its waiter at the tail; a waker pass signals and unlinks
\* the satisfied waiters from front to back, and the waiters it leaves keep
\* their order.
QueuesAreFIFO ==
    (call.op \in {"ExecuteOps", "SetVal", "SetValAll"}) =>
      \A i \in DOMAIN After.sems :
        LET old == Before.sems[i].waiters
            new == After.sems[i].waiters
            Signalled(w) == \E k \in DOMAIN woken : woken[k] = w.ch
            Kept(w) == ~Signalled(w)
            OfOld(c) == \E k \in DOMAIN old : old[k].ch = c
            signalled == SelectSeq(old, Signalled)
        IN  IF call.op = "ExecuteOps" /\ call.ch # 0 /\ i = At(call.num)
            THEN /\ Len(new) = Len(old) + 1
                 /\ SubSeq(new, 1, Len(old)) = old
                 /\ new[Len(new)].ch = call.ch
            ELSE /\ new = SelectSeq(old, Kept)
                 /\ SelectSeq(woken, OfOld) = [k \in DOMAIN signalled |-> signalled[k].ch]

\* one waker pass over a queue of three signalled the first and the third
\* waiter, in this order, and left the second
WakerPassAroundKeptWaiter ==
    /\ call.op \in {"SetVal", "SetValAll"}
    /\ \E i \in DOMAIN After.sems :
         LET old == Before.sems[i].waiters IN
         /\ Len(old) = 3
         /\ woken = <<old[1].ch, old[3].ch>>
         /\ After.sems[i].waiters = <<old[2]>>

\* C4: after any FindOrCreate and RemoveID calls, failed ones included, the
\* maps semaphores and indexes have the same size, every ID in indexes is a
\* key of semaphores, no two indexes hold the same ID and every ID of
\* semaphores has exactly one index; neither panic has been raised.
RegistryMapsAgree ==
    /\ panicked = ""
    /\ Cardinality(DOMAIN semaphores) = Cardinality(DOMAIN indexes)
    /\ \A k \in DOMAIN indexes : indexes[k] \in DOMAIN semaphores
    /\ \A j, k \in DOMAIN indexes : indexes[j] = indexes[k] => j = k
    /\ \A id \in DOMAIN semaphores :
         Cardinality({k \in DOMAIN indexes : indexes[k] = id}) = 1

\* a set was created after another had been removed, next to one that stays
CreatedAfterRemoval ==
    /\ call.op = "FindOrCreate"
    /\ call.err = ""
    /\ Len(heap) > Len(pre.heap)
    /\ Cardinality(DOMAIN semaphores) = 2
    /\ \E s \in DOMAIN pre.heap : \A id \in DOMAIN pre.semaphores : pre.semaphores[id] # s

\* the semaphores of the sets registered in sems
Registered(sems, hp) ==
    Sum([id \in DOMAIN sems |-> Len(hp[sems[id]].sems)], DOMAIN sems)

\* the call looked at is a FindOrCreate that gets to create a set: nsems is
\* valid, and the set is private or its key is new and create is set
Creating ==
    /\ call.op = "FindOrCreate"
    /\ call.args.nsems \in 1..semsMax
    /\ \/ call.args.private
       \/ /\ call.args.create
          /\ \A id \in DOMAIN pre.semaphores :
               pre.heap[pre.semaphores[id]].key # call.args.key

\* C5: there are never more than setsMax sets registered nor more than
\* semsTotalMax semaphores in them; a FindOrCreate that creates returns
\* ENOSPC exactly when setsMax sets are registered or the registered
\* semaphores plus nsems exceed semsTotalMax, and then leaves the registry
\* as it was.
CapacityIsEnforced ==
    /\ Cardinality(DOMAIN semaphores) <= setsMax
    /\ Registered(semaphores, heap) <= semsTotalMax
    /\ Creating =>
         /\ call.err = "ENOSPC" <=>
              \/ Cardinality(DOMAIN pre.semaphores) = setsMax
              \/ Registered(pre.semaphores, pre.heap) + call.args.nsems > semsTotalMax
         /\ call.err = "ENOSPC" =>
              /\ semaphores = pre.semaphores
              /\ indexes = pre.indexes
              /\ lastIDUsed = pre.lastIDUsed
              /\ heap = pre.heap

\* a creation was refused for the number of semaphores alone
RefusedForTotalOnly ==
    /\ Creating
    /\ call.err = "ENOSPC"
    /\ Cardinality(DOMAIN pre.semaphores) < setsMax

\* the waiters queued on the semaphores of set
Queued(set) ==
    UNION {{set.sems[i].waiters[k] : k \in DOMAIN set.sems[i].waiters} :
             i \in DOMAIN set.sems}

\* C6: when RemoveID succeeds, every waiter queued on a semaphore of the set
\* has been sent a signal, whatever its value and the semaphore's; and each
\* of them gets exactly one signal in all: no operation that runs after the
\* removal signals it again.
RemovalSignalsOnce ==
    /\ (call.op = "RemoveID" /\ call.err = "") =>
         \A w \in Queued(Before) : sent[w.ch] = 1
    /\ (call.op \in SetMethods \cup {"AbortWait", "Resume"} /\ Before.dead) =>
         sent = pre.sent

\* C7: once RemoveID has succeeded on a set, every ExecuteOps, SetVal,
\* SetValAll, GetVal, GetValAll, GetPID, GetStat, Change, CountZeroWaiters
\* and CountNegativeWaiters called on it through an older handle fails with
\* EIDRM and changes nothing.
DeadSetFailsRemoved ==
    (call.op \in SetMethods /\ Before.dead) => (call.err = "EIDRM" /\ Untouched)

\* C10: wakeWaiters and destroy never block: every send on a wake channel
\* completes at once, so that no method is stuck holding the mutex of a set
\* until a channel is drained.
WakerNeverBlocks == \A s \in DOMAIN pending : pending[s] = <<>>

\* thread t waits for a mutex that thread u holds
WaitsFor(t, u) ==
    /\ thr[t].pc = "run"
    /\ thr[t].todo # <<>>
    /\ Head(thr[t].todo) \in Held(u)

\* threads that wait for each other's mutexes in a cycle
LockCycles ==
    {p \in UNION {[1..n -> DOMAIN thr] : n \in 1..MaxThreads} :
       \A k \in DOMAIN p : WaitsFor(p[k], p[(k % Len(p)) + 1])}

\* C11: a thread that holds Registry.mu and a Set.mu took Registry.mu
\* first; no thread takes Registry.mu while it holds a Set.mu; no thread
\* holds the mutexes of two sets; and the threads never wait for each
\* other's mutexes in a cycle.
LockOrderIsRegistryThenSet ==
    /\ \A th \in DOMAIN thr :
         LET held == thr[th].held IN
         /\ \A k \in DOMAIN held : held[k] = RegistryMu => k = 1
         /\ Cardinality({k \in DOMAIN held : held[k] # RegistryMu}) <= 1
    /\ LockCycles = {}

\* a thread in RemoveID holds Registry.mu and waits for the mutex of the set,
\* which a thread in a method of that set holds
RemoverWaitsForSetMethod ==
    \E t, u \in DOMAIN thr :
      /\ thr[t].c.op = "RemoveID"
      /\ thr[t].held = <<RegistryMu>>
      /\ WaitsFor(t, u)
      /\ thr[u].c.op = "SetVal"

\* an operation that was blocked on a semaphore can proceed at value: a wait
\* for zero at 0, a decrement of no more than value
CanProceed(value, SemOp) == IF SemOp = 0 THEN value = 0 ELSE value + SemOp >= 0

\* the call looked at is an ExecuteOps that committed or a SetVal or
\* SetValAll that succeeded
Mutation ==
    /\ call.op \in {"ExecuteOps", "SetVal", "SetValAll"}
    /\ call.err = ""
    /\ call.op = "ExecuteOps" => call.ch = 0

\* when a mutation returns, every waiter that was queued on a semaphore whose
\* new value lets the waiter's operation proceed has a signal in its channel
SignalledIfSatisfied ==
    Mutation =>
      \A i \in DOMAIN Before.sems : \A k \in DOMAIN Before.sems[i].waiters :
        LET w == Before.sems[i].waiters[k] IN
        CanProceed(After.sems[i].value, w.value) => chans[w.ch] = 1

\* the caller waits on its channel, its operation can proceed on the value
\* of its semaphore, and the mutator makes no more calls
CallerCanGoOn ==
    /\ thr[1].pc = "wait"
    /\ thr[2].left = 0
    /\ CanProceed(heap[1].sems[At(thr[1].ops[1].SemNum)].value, thr[1].ops[1].SemOp)

CallerCompleted == thr[1].pc = "done" /\ thr[1].err = ""

\* C12: no wake-up is lost.  When a committed ExecuteOps, a SetVal or a
\* SetValAll returns, every caller blocked on a semaphore whose new value
\* lets its operation proceed has a signal in its wake channel; and, the
\* scheduler being fair and nobody else changing the set, the caller then
\* receives it, calls ExecuteOps again and completes.
NoLostWakeUp ==
    /\ []SignalledIfSatisfied
    /\ CallerCanGoOn ~> CallerCompleted

\* the caller was blocked in a decrement, has been sent one signal and has
\* completed
WokenCallerCompleted ==
    /\ CallerCompleted
    /\ thr[1].ops[1].SemOp < 0
    /\ sent[thr[1].ch] = 1

\* the call looked at is a FindOrCreate that is not private, for a key that
\* a registered set has
FindsByKey ==
    /\ call.op = "FindOrCreate"
    /\ ~call.args.private
    /\ \E id \in DOMAIN pre.semaphores :
         pre.heap[pre.semaphores[id]].key = call.args.key

\* the call looked at changed neither the registry nor a set, and made none
RegistryUntouched ==
    /\ semaphores = pre.semaphores
    /\ indexes = pre.indexes
    /\ lastIDUsed = pre.lastIDUsed
    /\ heap = pre.heap

\* what FindOrCreate is to return when it has found set s by key: the error,
\* or "" and the set
FoundAnswer(s) ==
    LET a == call.args
        f == pre.heap[s]
    IN  IF ~checkPerms(f, Creds(a.task), a.mode.User) THEN [err |-> "EACCES", set |-> 0]
        ELSE IF a.nsems > Len(f.sems) THEN [err |-> "EINVAL", set |-> 0]
        ELSE IF a.create /\ a.exclusive THEN [err |-> "EEXIST", set |-> 0]
        ELSE [err |-> "", set |-> s]

\* the call looked at has answered as it is to answer for a registered set
\* of the key
AnswersForFoundSet ==
    /\ RegistryUntouched
    /\ \E id \in DOMAIN pre.semaphores :
         /\ pre.heap[pre.semaphores[id]].key = call.args.key
         /\ call.err = FoundAnswer(pre.semaphores[id]).err
         /\ call.set = FoundAnswer(pre.semaphores[id]).set
         /\ call.err = "" => heap[call.set].ID = id

\* a FindOrCreate with create and exclusive that succeeded would, called
\* again with the same arguments, return EEXIST
SecondExclusiveFails ==
    (/\ call.op = "FindOrCreate"
     /\ ~call.args.private /\ call.args.create /\ call.args.exclusive
     /\ call.err = "") =>
      \A found \in findByKey(Reg, heap, call.args.key) :
        FindOrCreate(Reg, heap, call.args, found).err = "EEXIST"

RECURSIVE FirstUnused(_, _)
FirstUnused(id, used) ==
    IF id \notin used THEN id
    ELSE FirstUnused(IF id = MaxInt32 THEN 0 ELSE id + 1, used)

\* the call looked at is a FindOrCreate that made a set
Created1 ==
    /\ call.op = "FindOrCreate"
    /\ call.err = ""
    /\ Len(heap) > Len(pre.heap)

\* C14: a creation assigns the first ID not in use, searching upward from
\* lastIDUsed + 1 and going on from 0 after the largest int32, so that an
\* unused ID 0 is the one chosen right after a wrap; the ID is not the ID of
\* a set that was registered, and lastIDUsed becomes that ID; ENOMEM is
\* returned only when every ID is in use.
NextIDIsFirstUnused ==
    /\ Created1 =>
         LET id == heap[call.set].ID
             from == IF pre.lastIDUsed = MaxInt32 THEN 0 ELSE pre.lastIDUsed + 1
         IN  /\ id = FirstUnused(from, DOMAIN pre.semaphores)
             /\ id \notin DOMAIN pre.semaphores
             /\ lastIDUsed = id
             /\ id \in DOMAIN semaphores /\ semaphores[id] = call.set
    /\ call.op = "FindOrCreate" => call.err # "ENOMEM"

\* the call looked at is an ExecuteOps that applied its batch
Committed == call.op = "ExecuteOps" /\ call.err = "" /\ call.ch = 0

\* an operation of ops names the i-th semaphore
Named(ops, i) == \E k \in DOMAIN ops : At(ops[k].SemNum) = i

\* C15: a committed ExecuteOps sets the pid of the affected semaphores only:
\* every semaphore whose value the batch changed has the caller's pid, and
\* every semaphore that no operation of the batch names keeps its pid.
CommitSetsPidOfAffectedOnly ==
    Committed =>
      \A i \in DOMAIN After.sems :
        /\ After.sems[i].value # Before.sems[i].value =>
             After.sems[i].pid = Pid(call.task)
        /\ ~Named(call.ops, i) => After.sems[i].pid = Before.sems[i].pid

\* the sum of the SemOp of the operations of ops, from ops[k] on, that name
\* the i-th semaphore
RECURSIVE SumOfOps(_, _, _)
SumOfOps(ops, i, k) ==
    IF k > Len(ops) THEN 0
    ELSE (IF At(ops[k].SemNum) = i THEN ops[k].SemOp ELSE 0) + SumOfOps(ops, i, k + 1)

\* the call looked at is an ExecuteOps that got as far as its batch
Evaluated ==
    /\ call.op = "ExecuteOps"
    /\ call.err \notin {"EIDRM", "EFBIG", "EACCES", "blocked in send"}

\* C16: ExecuteOps evaluates its batch in order on a shadow copy of the
\* values, each operation seeing what the operations before it did: the
\* call commits exactly when every operation in turn can proceed on the
\* shadow (a wait for zero sees 0, a decrement is not more than the shadow
\* value, an increment does not pass valueMax), and after a commit the value
\* of each semaphore is its value before the call plus the sum of the SemOp
\* of the operations that name it.
BatchRunsOnShadow ==
    Evaluated =>
      /\ Committed <=> \A k \in DOMAIN call.ops : Proceeds(Values(Before), call.ops, k)
      /\ Committed =>
           \A i \in DOMAIN After.sems :
             After.sems[i].value = Before.sems[i].value + SumOfOps(call.ops, i, 1)

\* |w.value|, what the waiter w needs of its semaphore
Need(w) == IF w.value < 0 THEN 0 - w.value ELSE w.value

\* the call looked at ran wakeWaiters on the i-th semaphore of its set
WakerPassed(i) ==
    \/ call.op = "SetVal" /\ call.err = "" /\ i = At(call.num)
    \/ call.op = "SetValAll" /\ call.err = ""
    \/ Committed

\* the value the call looked at stored in the i-th semaphore before it ran
\* wakeWaiters on it
Stored(i) ==
    CASE call.op = "SetVal" -> call.val
      [] call.op = "SetValAll" -> call.vals[i]
      [] call.op = "ExecuteOps" -> Int16(Before.sems[i].value + SumOfOps(call.ops, i, 1))

\* the waker pass over the i-th semaphore signalled once and unlinked the
\* waiters whose need the value meets, and left the others queued and
\* unsignalled, and the value as it was stored
PassSignalsSatisfied(i) ==
    LET value == After.sems[i].value
        old == Before.sems[i].waiters
        Kept(w) == value < Need(w)
    IN  /\ After.sems[i].waiters = SelectSeq(old, Kept)
        /\ \A k \in DOMAIN old :
             sent[old[k].ch] = pre.sent[old[k].ch] + (IF Kept(old[k]) THEN 0 ELSE 1)
        /\ value = Stored(i)

\* the waiters for zero of the i-th semaphore were signalled and unlinked
PassSignalsZeroWaiters(i) ==
    LET old == Before.sems[i].waiters IN
    \A k \in DOMAIN old :
      old[k].value = 0 =>
        /\ sent[old[k].ch] = pre.sent[old[k].ch] + 1
        /\ \A j \in DOMAIN After.sems[i].waiters : After.sems[i].waiters[j] # old[k]

\* C17: one waker pass over a semaphore, run by SetVal, SetValAll and a
\* committed ExecuteOps once the new value is stored, signals once and
\* unlinks exactly the queued waiters w with value >= |w.value|, every
\* waiter for zero among them whatever the value is, and leaves every waiter
\* with value < |w.value| queued and unsignalled; it changes no value.
WakerPassSignalsSatisfied ==
    (call.op \in {"SetVal", "SetValAll", "ExecuteOps"}) =>
      \A i \in DOMAIN After.sems :
        WakerPassed(i) => PassSignalsSatisfied(i) /\ PassSignalsZeroWaiters(i)

\* C18: after RemoveID has succeeded, the queue of every semaphore of the
\* removed set is empty: destroy unlinks every waiter it signals, so that
\* CountZeroWaiters and CountNegativeWaiters would count 0 and a later
\* AbortWait finds no waiter to remove.
RemovalEmptiesQueues ==
    (call.op = "RemoveID" /\ call.err = "") =>
      \A i \in DOMAIN After.sems : After.sems[i].waiters = <<>>

\* the call looked at is an AbortWait for a waiter that a waker pass had
\* unlinked and signalled, the signal still being in the channel
AbortedAfterWake ==
    /\ call.op = "AbortWait"
    /\ \A k \in DOMAIN Before.sems[At(call.num)].waiters :
         Before.sems[At(call.num)].waiters[k].ch # call.ch
    /\ pre.chans[call.ch] = 1

\* C19: AbortWait(num, ch) removes from the queue of semaphore num the
\* waiter whose channel is ch, if it is still queued, and leaves the other
\* waiters in their order, and the values, pids and times as they were; if
\* the waiter is not queued, a waker having unlinked it, AbortWait changes
\* nothing and does not fail, and a signal already in ch does no harm; after
\* AbortWait for the only waiter queued CountNegativeWaiters returns 0.
AbortWaitRemovesItsWaiter ==
    (call.op = "AbortWait") =>
      LET i == At(call.num)
          old == Before.sems[i].waiters
          Other(w) == w.ch # call.ch
          count == CountNegativeWaiters(After, call.num, Creds(1))
      IN  /\ call.err = ""
          /\ panicked = ""
          /\ After = [Before EXCEPT !.sems[i].waiters = SelectSeq(old, Other)]
          /\ \A s \in DOMAIN pre.heap : s # call.set => heap[s] = pre.heap[s]
          /\ chans = pre.chans /\ sent = pre.sent
          /\ (old # <<>> /\ old[1].ch = call.ch /\ Queued(Before) = {old[1]}) =>
               (count.err = "" /\ count.val = 0)
          /\ AbortedAfterWake => Untouched

\* SetValAll refused a second value that is too big, after a first value
\* that would have changed its semaphore, on which a waiter is queued
SetValAllRefusedAtSecondValue ==
    /\ call.op = "SetValAll"
    /\ call.err = "ERANGE"
    /\ call.vals[1] <= valueMax
    /\ call.vals[1] # Before.sems[1].value
    /\ call.vals[2] > valueMax
    /\ Before.sems[1].waiters # <<>>

\* C20: SetVal and SetValAll do all or nothing: a call that returns ERANGE
\* (a value outside 0..valueMax or, for SetVal, a number that is not of the
\* set) or EACCES leaves the values, pids, changeTime and queues as they
\* were and signals nobody; after a successful SetValAll every semaphore i
\* has value vals[i] and the caller's pid; a successful SetVal changes the
\* value and the pid of semaphore num only.
SetValIsAllOrNothing ==
    (call.op \in {"SetVal", "SetValAll"}) =>
      /\ call.err \in {"ERANGE", "EACCES"} => Untouched
      /\ (call.op = "SetVal"
            /\ (call.val \notin 0..valueMax \/ call.num \notin 0..(Size(Before) - 1))) =>
           call.err \in {"ERANGE", "EACCES"}
      /\ (call.op = "SetValAll"
            /\ \E i \in DOMAIN call.vals : call.vals[i] \notin 0..valueMax) =>
           call.err \in {"ERANGE", "EACCES"}
      /\ (call.op = "SetValAll" /\ call.err = "") =>
           \A i \in DOMAIN After.sems :
             /\ After.sems[i].value = call.vals[i]
             /\ After.sems[i].pid = Pid(call.task)
      /\ (call.op = "SetVal" /\ call.err = "") =>
           \A i \in DOMAIN After.sems :
             IF i = At(call.num)
             THEN /\ After.sems[i].value = call.val
                  /\ After.sems[i].pid = Pid(call.task)
             ELSE /\ After.sems[i].value = Before.sems[i].value
                  /\ After.sems[i].pid = Before.sems[i].pid

\* the set s is in the maps of the registry r: its ID is a key of semaphores
\* and an index holds that ID
InMaps(r, hp, s) ==
    /\ \E id \in DOMAIN r.semaphores : r.semaphores[id] = s
    /\ \E index \in DOMAIN r.indexes : r.indexes[index] = hp[s].ID

\* the set s is in neither map of the registry r
OutOfMaps(r, hp, s) ==
    /\ \A id \in DOMAIN r.semaphores : r.semaphores[id] # s
    /\ \A index \in DOMAIN r.indexes : r.indexes[index] # hp[s].ID

\* FindOrCreate was asked for the key of a set that is dead, with waiters
\* still in its queues, and has made a new set
CreatedUnderKeyOfDeadSet ==
    /\ call.op = "FindOrCreate"
    /\ call.err = ""
    /\ ~call.args.private
    /\ Len(heap) > Len(pre.heap)
    /\ \E s \in DOMAIN pre.heap :
         /\ heap[s].dead
         /\ heap[s].key = call.args.key
         /\ Queued(heap[s]) # {}

\* C21: a dead set cannot be reached any more: every set in the maps of the
\* registry has dead = false; dead goes from false to true at most once and
\* never back; it becomes true in the step of RemoveID that takes the ID and
\* the index of the set out of the maps, so that FindByID, FindByIndex and
\* FindOrCreate never return a dead set; a RemoveID that fails with EINVAL
\* or EACCES changes neither the maps nor a dead flag nor a queue.
DeadSetIsUnreachable ==
    /\ \A id \in DOMAIN semaphores : ~heap[semaphores[id]].dead
    /\ \A id \in IDs \cup DOMAIN semaphores :
         FindByID(Reg, id) # 0 => ~heap[FindByID(Reg, id)].dead
    /\ \A index \in 0..setsMax \cup DOMAIN indexes :
         FindByIndex(Reg, index) # 0 => ~heap[FindByIndex(Reg, index)].dead
    /\ (call.op = "FindOrCreate" /\ call.set # 0) => ~heap[call.set].dead
    /\ call.op # "none" =>
         \A s \in DOMAIN pre.heap :
           /\ pre.heap[s].dead => heap[s].dead
           /\ (heap[s].dead /\ ~pre.heap[s].dead) =>
                /\ call.op = "RemoveID" /\ call.set = s
                /\ InMaps(pre, pre.heap, s)
                /\ OutOfMaps(Reg, heap, s)
           /\ (InMaps(pre, pre.heap, s) /\ ~InMaps(Reg, heap, s)) =>
                (heap[s].dead /\ ~pre.heap[s].dead)
    /\ (call.op = "RemoveID" /\ call.err \in {"EINVAL", "EACCES"}) =>
         /\ semaphores = pre.semaphores /\ indexes = pre.indexes
         /\ Untouched

=============================================================================
